---- MODULE Spec2Model ----
(***************************************************************************)
(* Krutidev-Converter, src/app.py.                                         *)
(*                                                                         *)
(* Strings are sequences of Unicode code points (Python str indexing and   *)
(* len() are per code point).  A dictionary key is a string, so a key of   *)
(* UNICODE_TO_KRUTIDEV is a sequence of code points; every shipped key has *)
(* length 1.  Python indexes from 0, TLA+ sequences from 1: position k of  *)
(* the source is element k + 1 here.                                       *)
(*                                                                         *)
(* The specifications of the module:                                       *)
(*   Spec          one invocation of convert_unicode_to_krutidev           *)
(*   FairSpec      Spec, the invocation running until it returns           *)
(*   ConcSpec      NumCalls interleaved invocations of it                  *)
(*   TranscribeSpec  NumRequests interleaved /transcribe requests          *)
(***************************************************************************)
EXTENDS Integers, Sequences, FiniteSets, TLC

VARIABLES
    glyphMap,        \* the module global UNICODE_TO_KRUTIDEV (a mutable dict)
    unicode_text,    \* per invocation: the argument
    i,               \* per invocation: the scan cursor
    krutidev_text,   \* per invocation: the accumulator
    pc,              \* per invocation: "call", "loop", "return", "done"
    result,          \* per invocation: what the function returned
    consumed,        \* history: input positions consumed, in emission order
    readPos,         \* history: input positions read by the scan
    req_pc,          \* per request: position inside transcribe()
    audio_file,      \* per request: the uploaded file of the request
    filepath,        \* per request: where the upload was saved
    heard,           \* per request: whose upload the recognizer read (0: none)
    outcome,         \* per request: how the recognizer ended
    unicode_text_r,  \* per request: the string recognize_speech returned
    converted,       \* per request: arguments passed to the converter
    response,        \* per request: the HTTP response
    files            \* UPLOAD_FOLDER: path -> request whose upload is there

vars == <<glyphMap, unicode_text, i, krutidev_text, pc, result, consumed,
          readPos, req_pc, audio_file, filepath, heard, outcome,
          unicode_text_r, converted, response, files>>

scanVars == <<unicode_text, i, krutidev_text, pc, result, consumed, readPos>>

reqVars == <<req_pc, audio_file, filepath, heard, outcome, unicode_text_r,
             converted, response, files>>

(***************************************************************************)
(* Bounds of the model.                                                    *)
(***************************************************************************)
\* longest input string of the single-invocation specification
MaxLen == 4

\* number of interleaved invocations of ConcSpec
NumCalls == 2

\* longest input string of an invocation of ConcSpec
ConcMaxLen == 2

\* number of interleaved /transcribe requests
NumRequests == 2

\* all sequences over S of length at most n
SeqsUpTo(S, n) == UNION {[1..k -> S] : k \in 0..n}

(***************************************************************************)
(* The glyph table, app.py lines 19-32.  Keys and values are strings,      *)
(* written as sequences of code points (U+0905 = 2309, "v" = 118, ...).    *)
(***************************************************************************)
UNICODE_TO_KRUTIDEV ==
    \* app.py line 20
    (<<2309>> :> <<118>>) @@ (<<2310>> :> <<118, 107>>) @@ (<<2311>> :> <<98>>) @@
    (<<2312>> :> <<98, 90>>) @@ (<<2313>> :> <<109>>) @@ (<<2314>> :> <<197>>) @@
    \* app.py line 21
    (<<2315>> :> <<95>>) @@ (<<2319>> :> <<44>>) @@ (<<2320>> :> <<44, 115>>) @@
    (<<2323>> :> <<118, 107, 115>>) @@ (<<2324>> :> <<118, 107, 83>>) @@
    \* app.py line 22
    (<<2325>> :> <<100>>) @@ (<<2326>> :> <<91, 107>>) @@ (<<2327>> :> <<120>>) @@
    (<<2328>> :> <<63, 107>>) @@ (<<2329>> :> <<179>>) @@
    \* app.py line 23
    (<<2330>> :> <<112>>) @@ (<<2331>> :> <<78>>) @@ (<<2332>> :> <<116>>) @@
    (<<2333>> :> <<62>>) @@ (<<2334>> :> <<165>>) @@
    \* app.py line 24
    (<<2335>> :> <<86>>) @@ (<<2336>> :> <<66>>) @@ (<<2337>> :> <<77>>) @@
    (<<2338>> :> <<60>>) @@ (<<2339>> :> <<46, 107>>) @@
    \* app.py line 25
    (<<2340>> :> <<114>>) @@ (<<2341>> :> <<70, 107>>) @@ (<<2342>> :> <<110>>) @@
    (<<2343>> :> <<47, 107>>) @@ (<<2344>> :> <<117>>) @@
    \* app.py line 26
    (<<2346>> :> <<105>>) @@ (<<2347>> :> <<81>>) @@ (<<2348>> :> <<99>>) @@
    (<<2349>> :> <<72, 107>>) @@ (<<2350>> :> <<101>>) @@
    \* app.py line 27
    (<<2351>> :> <<59>>) @@ (<<2352>> :> <<106>>) @@ (<<2354>> :> <<121>>) @@
    (<<2357>> :> <<111>>) @@ (<<2358>> :> <<39, 107>>) @@
    \* app.py line 28
    (<<2359>> :> <<34, 107>>) @@ (<<2360>> :> <<108>>) @@ (<<2361>> :> <<103>>) @@
    \* app.py line 29
    (<<2366>> :> <<107>>) @@ (<<2367>> :> <<102>>) @@ (<<2368>> :> <<104>>) @@
    (<<2369>> :> <<113>>) @@ (<<2370>> :> <<119>>) @@ (<<2375>> :> <<115>>) @@
    \* app.py line 30
    (<<2376>> :> <<83>>) @@ (<<2379>> :> <<107, 115>>) @@ (<<2380>> :> <<107, 83>>) @@
    (<<2306>> :> <<77, 43>>) @@ (<<2307>> :> <<37>>) @@ (<<2305>> :> <<126>>) @@
    \* app.py line 31
    (<<2381>> :> <<>>) @@ (<<32>> :> <<32>>) @@ (<<10>> :> <<10>>)

\* U+094D DEVANAGARI SIGN VIRAMA, the key mapped to "" on line 31
VIRAMA == 2381

\* the consonant keys of the table: U+0915..U+0939 (lines 22-28)
Consonants == {c \in 2325..2361 : <<c>> \in DOMAIN UNICODE_TO_KRUTIDEV}

\* Input code points of the single-invocation specification:
\*   2325 KA -> "d"       2326 KHA -> "[k"     2323 O -> "vks" (widest value)
\*   2366 sign AA -> "k"  2381 virama -> ""
\*   32 space, 10 newline (mapped to themselves), 104 "h", 49 "1" (no key)
Alphabet == {2325, 2326, 2323, 2366, VIRAMA, 32, 10, 104, 49}

\* consonant + virama + consonant, for every pair of consonant keys
ViramaTriples == {<<c1, VIRAMA, c2>> : c1 \in Consonants, c2 \in Consonants}

\* "hello123"
Hello123 == <<104, 101, 108, 108, 111, 49, 50, 51>>

\* the arguments of the single-invocation specification
Inputs == SeqsUpTo(Alphabet, MaxLen) \cup ViramaTriples \cup {Hello123}

\* Input code points of the interleaved invocations
ConcAlphabet == {2326, 104}

ConcInputs == SeqsUpTo(ConcAlphabet, ConcMaxLen)

(***************************************************************************)
(* convert_unicode_to_krutidev, app.py lines 40-68.                        *)
(***************************************************************************)
\* Lookahead with the bound off by one: i < len(unicode_text)
LookaheadOffByOne(text, k) == k < Len(text)

\* Lookahead without the bound check of line 48
LookaheadUnguarded(text, k) == TRUE

\* line 48: the lookahead is attempted when i is not the last index
Lookahead(text, k) == k < Len(text) - 1

\* CompoundKey without the next code point: compound = char
CompoundKeyCharOnly(text, k) == <<text[k + 1]>>

\* line 49: compound = char + unicode_text[i + 1]
CompoundKey(text, k) == <<text[k + 1], text[k + 2]>>

\* Emit without the else branch of lines 57-58
EmitNoElse(T, char) == IF <<char>> \in DOMAIN T THEN T[<<char>>] ELSE <<>>

\* Emit testing the truth of the mapped value instead of key membership
EmitTruthy(T, char) ==
    IF <<char>> \in DOMAIN T /\ T[<<char>>] # <<>> THEN T[<<char>>]
    ELSE <<char>>

\* Emit appending the code point after its mapping as well
EmitAndEcho(T, char) ==
    IF <<char>> \in DOMAIN T THEN T[<<char>>] \o <<char>> ELSE <<char>>

\* lines 55-58: the glyphs of one code point; an unmapped one passes through
Emit(T, char) == IF <<char>> \in DOMAIN T THEN T[<<char>>] ELSE <<char>>

\* lines 46-60: one iteration of the while loop at cursor k with accumulator
\* out.  reads are the positions the iteration indexes (line 46, line 49);
\* indexing a position >= len raises IndexError and the iteration is
\* abandoned for the except clause.
ScanIter(T, text, k, out) ==
    LET reads == IF Lookahead(text, k) THEN {k, k + 1} ELSE {k}
    IN  IF \E r \in reads : r >= Len(text)
        THEN [raised |-> TRUE, i |-> k, out |-> out, reads |-> reads,
              consumed |-> <<>>]
        ELSE LET char == text[k + 1]
             IN  IF Lookahead(text, k)
                    /\ CompoundKey(text, k) \in DOMAIN T
                 THEN [raised |-> FALSE, i |-> k + 2,
                       out |-> out \o T[CompoundKey(text, k)],
                       reads |-> reads, consumed |-> <<k, k + 1>>]
                 ELSE [raised |-> FALSE, i |-> k + 1,
                       out |-> out \o Emit(T, char),
                       reads |-> reads, consumed |-> <<k>>]

\* "Conversion error: " (line 68)
ConversionErrorPrefix ==
    <<67, 111, 110, 118, 101, 114, 115, 105, 111, 110, 32, 101, 114, 114,
      111, 114, 58, 32>>

\* str(e) of the IndexError the scan can raise: "string index out of range"
IndexErrorMessage ==
    <<115, 116, 114, 105, 110, 103, 32, 105, 110, 100, 101, 120, 32, 111,
      117, 116, 32, 111, 102, 32, 114, 97, 110, 103, 101>>

\* line 66: the ITRANS transliteration of the external library; which string
\* it returns is not determined by this repository
ItransOutputs == {<<>>, <<107, 97>>}

\* lines 64-68: what the except clause can return: the ITRANS string, or the
\* diagnostic when the library raises too
HandlerResults ==
    {[kind |-> "itrans", text |-> t] : t \in ItransOutputs}
    \cup {[kind |-> "error",
           text |-> ConversionErrorPrefix \o IndexErrorMessage]}

\* lines 45-62 run to completion from cursor k
RECURSIVE ScanFrom(_, _, _, _)
ScanFrom(T, text, k, out) ==
    IF k < Len(text)
    THEN LET r == ScanIter(T, text, k, out)
         IN  IF r.raised THEN [raised |-> TRUE, out |-> out]
             ELSE ScanFrom(T, text, r.i, r.out)
    ELSE [raised |-> FALSE, out |-> out]

\* lines 40-68: the results one call can return
convert_unicode_to_krutidev(T, text) ==
    LET s == ScanFrom(T, text, 0, <<>>)
    IN  IF s.raised THEN HandlerResults
        ELSE {[kind |-> "scan", text |-> s.out]}

\* the invocations in progress
Calls == DOMAIN pc

\* lines 43-44: krutidev_text = "", i = 0
Call(p) ==
    /\ pc[p] = "call"
    /\ krutidev_text' = [krutidev_text EXCEPT ![p] = <<>>]
    /\ i' = [i EXCEPT ![p] = 0]
    /\ pc' = [pc EXCEPT ![p] = "loop"]
    /\ UNCHANGED <<glyphMap, unicode_text, result, consumed, readPos>>
    /\ UNCHANGED reqVars

\* LoopIter with krutidev_text a module global shared by all invocations
LoopIterSharedAccumulator(p) ==
    /\ pc[p] = "loop"
    /\ i[p] < Len(unicode_text[p])
    /\ LET r == ScanIter(glyphMap, unicode_text[p], i[p], krutidev_text[p])
       IN  /\ readPos' = [readPos EXCEPT ![p] = @ \cup r.reads]
           /\ IF r.raised
              THEN /\ \E h \in HandlerResults :
                          result' = [result EXCEPT ![p] = h]
                   /\ pc' = [pc EXCEPT ![p] = "done"]
                   /\ UNCHANGED <<i, krutidev_text, consumed>>
              ELSE /\ i' = [i EXCEPT ![p] = r.i]
                   /\ krutidev_text' = [q \in DOMAIN pc |-> r.out]
                   /\ consumed' = [consumed EXCEPT ![p] = @ \o r.consumed]
                   /\ UNCHANGED <<pc, result>>
    /\ UNCHANGED <<glyphMap, unicode_text>>
    /\ UNCHANGED reqVars

\* lines 45-60: one iteration of the while loop; an exception raised by it
\* is caught on line 64 and the except clause returns (lines 65-68)
LoopIter(p) ==
    /\ pc[p] = "loop"
    /\ i[p] < Len(unicode_text[p])
    /\ LET r == ScanIter(glyphMap, unicode_text[p], i[p], krutidev_text[p])
       IN  /\ readPos' = [readPos EXCEPT ![p] = @ \cup r.reads]
           /\ IF r.raised
              THEN /\ \E h \in HandlerResults :
                          result' = [result EXCEPT ![p] = h]
                   /\ pc' = [pc EXCEPT ![p] = "done"]
                   /\ UNCHANGED <<i, krutidev_text, consumed>>
              ELSE /\ i' = [i EXCEPT ![p] = r.i]
                   /\ krutidev_text' = [krutidev_text EXCEPT ![p] = r.out]
                   /\ consumed' = [consumed EXCEPT ![p] = @ \o r.consumed]
                   /\ UNCHANGED <<pc, result>>
    /\ UNCHANGED <<glyphMap, unicode_text>>
    /\ UNCHANGED reqVars

\* line 45 (condition false) and line 62: return krutidev_text
Return(p) ==
    /\ pc[p] = "loop"
    /\ ~(i[p] < Len(unicode_text[p]))
    /\ result' = [result EXCEPT ![p] = [kind |-> "scan",
                                        text |-> krutidev_text[p]]]
    /\ pc' = [pc EXCEPT ![p] = "done"]
    /\ UNCHANGED <<glyphMap, unicode_text, i, krutidev_text, consumed,
                   readPos>>
    /\ UNCHANGED reqVars

\* no request is in progress
NoRequests ==
    /\ req_pc = <<>>
    /\ audio_file = <<>>
    /\ filepath = <<>>
    /\ heard = <<>>
    /\ outcome = <<>>
    /\ unicode_text_r = <<>>
    /\ converted = <<>>
    /\ response = <<>>
    /\ files = <<>>

\* n invocations about to start, each on an argument of S
InitCalls(n, S) ==
    /\ glyphMap = UNICODE_TO_KRUTIDEV
    /\ unicode_text \in [1..n -> S]
    /\ i = [p \in 1..n |-> 0]
    /\ krutidev_text = [p \in 1..n |-> <<>>]
    /\ pc = [p \in 1..n |-> "call"]
    /\ result = [p \in 1..n |-> [kind |-> "none", text |-> <<>>]]
    /\ consumed = [p \in 1..n |-> <<>>]
    /\ readPos = [p \in 1..n |-> {}]

Init ==
    /\ InitCalls(1, Inputs)
    /\ NoRequests

Next ==
    \/ \E p \in Calls : Call(p)
    \/ \E p \in Calls : LoopIter(p)
    \/ \E p \in Calls : Return(p)

Spec == Init /\ [][Next]_vars

\* the interpreter keeps running an invocation until it returns
FairSpec == Spec /\ WF_vars(Next)

\* NumCalls invocations running interleaved (threads of the server)
ConcInit ==
    /\ InitCalls(NumCalls, ConcInputs)
    /\ NoRequests

ConcSpec == ConcInit /\ [][Next]_vars

(***************************************************************************)
(* Properties of one invocation (Spec, FairSpec).                          *)
(***************************************************************************)
\* the invocation p has returned
Done(p) == pc[p] = "done"

\* C1: for every input string the function returns the string the primary
\* scan produced: the scan never raises, so the except clause (ITRANS
\* fallback, "Conversion error:" diagnostic) is never the source of a result.
C1_ScanIsTotal ==
    \A p \in Calls :
        Done(p) => /\ result[p].kind = "scan"
                   /\ result[p].text = krutidev_text[p]

\* a mixed Devanagari/Latin/digit input of full length has been converted
\* by the scan
C1_Witness ==
    \E p \in Calls :
        /\ Done(p)
        /\ unicode_text[p] = <<104, 2325, 2366, 2326>>
        /\ result[p].kind = "scan"

\* a code point that is no key of the table, or the space or the newline
PassThroughChar(c) == <<c>> \notin DOMAIN UNICODE_TO_KRUTIDEV \/ c \in {32, 10}

\* C2: an input whose every code point is either no key of the table or a
\* space or a newline is returned unchanged (so "" -> "", " " -> " ",
\* "\n" -> "\n", "hello123" -> "hello123").
C2_PassThrough ==
    \A p \in Calls :
        (/\ Done(p)
         /\ \A k \in 1..Len(unicode_text[p]) :
                PassThroughChar(unicode_text[p][k]))
        => result[p] = [kind |-> "scan", text |-> unicode_text[p]]

\* "hello123" has been converted to itself
C2_Witness ==
    \E p \in Calls :
        /\ Done(p)
        /\ unicode_text[p] = Hello123
        /\ result[p].text = Hello123

\* the concatenation of the single-code-point mappings of a two-code-point
\* string, an unmapped code point standing for itself
NaivePair(T, key) ==
    (IF <<key[1]>> \in DOMAIN T THEN T[<<key[1]>>] ELSE <<key[1]>>)
    \o (IF <<key[2]>> \in DOMAIN T THEN T[<<key[2]>>] ELSE <<key[2]>>)

\* C3: a two-code-point input that is a compound key of the table converts
\* to the compound's value, and the table has at least one compound key
\* whose value differs from the per-code-point concatenation.
C3_CompoundPrecedence ==
    /\ \A p \in Calls :
           (Done(p) /\ Len(unicode_text[p]) = 2
                    /\ unicode_text[p] \in DOMAIN glyphMap)
           => result[p].text = glyphMap[unicode_text[p]]
    /\ \E key \in DOMAIN glyphMap :
           Len(key) = 2 /\ glyphMap[key] # NaivePair(glyphMap, key)

\* C4: the virama alone converts to the empty string (it is a key, it is
\* not passed through), and consonant + virama + consonant converts to the
\* two consonants' glyphs with nothing in between.
C4_ZeroLengthMapping ==
    \A p \in Calls :
        Done(p) =>
            /\ unicode_text[p] = <<VIRAMA>>
               => /\ <<VIRAMA>> \in DOMAIN glyphMap
                  /\ result[p] = [kind |-> "scan", text |-> <<>>]
            /\ unicode_text[p] \in ViramaTriples
               => LET g1 == glyphMap[<<unicode_text[p][1]>>]
                      g2 == glyphMap[<<unicode_text[p][3]>>]
                  IN  /\ result[p] = [kind |-> "scan", text |-> g1 \o g2]
                      /\ Len(result[p].text) = Len(g1) + Len(g2)

\* KHA + virama + KA has been converted to "[k" + "d"
C4_Witness ==
    \E p \in Calls :
        /\ Done(p)
        /\ unicode_text[p] = <<2326, VIRAMA, 2325>>
        /\ result[p].text = <<91, 107, 100>>

\* the length of the widest value of the table T
WidestValue(T) ==
    CHOOSE w \in 0..8 :
        /\ \E key \in DOMAIN T : Len(T[key]) = w
        /\ \A key \in DOMAIN T : Len(T[key]) <= w

\* C6: the output is at most W times as long as the input, W the length of
\* the widest value of the table, and W = 3 for the shipped table.
C6_LengthBound ==
    /\ WidestValue(glyphMap) = 3
    /\ \A p \in Calls :
           Done(p) => Len(result[p].text) <= 3 * Len(unicode_text[p])

\* an input of widest-value code points has reached the bound
C6_Witness ==
    \E p \in Calls :
        /\ Done(p)
        /\ unicode_text[p] = <<2323, 2323>>
        /\ Len(result[p].text) = 6

\* the cursor bounds, the reads and the consumption of the scan
C8_State ==
    \A p \in Calls :
        /\ 0 <= i[p] /\ i[p] <= Len(unicode_text[p]) + 1
        /\ pc[p] = "call" => i[p] = 0
        /\ \A k \in readPos[p] : 0 <= k /\ k < Len(unicode_text[p])
        /\ Done(p) =>
              /\ i[p] >= Len(unicode_text[p])
              /\ consumed[p] = [k \in 1..Len(unicode_text[p]) |-> k - 1]

\* the cursor movement of one step of the invocation p
C8_Step(p) ==
    /\ pc[p] = "call" => i'[p] = 0
    /\ i'[p] >= i[p]
    /\ (pc[p] = "loop" /\ i[p] < Len(unicode_text[p]))
       => /\ i'[p] \in {i[p] + 1, i[p] + 2}
          /\ pc'[p] = "loop"
          /\ Len(consumed'[p]) = Len(consumed[p]) + (i'[p] - i[p])
    /\ (pc[p] = "loop" /\ i[p] >= Len(unicode_text[p]))
       => pc'[p] = "done" /\ i'[p] = i[p]

\* C8: the scan is one terminating linear pass: the cursor starts at 0,
\* every iteration advances it by 1 or 2, it never moves back, it stays in
\* 0..len+1, the loop exits as soon as i >= len, position i+1 is read only
\* when i+1 < len, and every position is consumed exactly once, in order.
C8_LinearPass ==
    /\ []C8_State
    /\ [][\A p \in Calls :
              <<pc[p], i[p], krutidev_text[p]>>'
                  # <<pc[p], i[p], krutidev_text[p]>> => C8_Step(p)]_vars
    /\ <>(\A p \in Calls : Done(p))

\* a full-length input has been scanned to its end, one position per step
C8_Witness ==
    \E p \in Calls :
        /\ Done(p)
        /\ unicode_text[p] = <<2325, 2366, 2325, 2381>>
        /\ i[p] = 4
        /\ consumed[p] = <<0, 1, 2, 3>>

\* context-free substitution: each code point replaced by its own mapping
RECURSIVE PerCodePoint(_, _)
PerCodePoint(T, text) ==
    IF text = <<>> THEN <<>>
    ELSE (IF <<Head(text)>> \in DOMAIN T THEN T[<<Head(text)>>]
          ELSE <<Head(text)>>) \o PerCodePoint(T, Tail(text))

\* the string the scan produces for text, run on its own
ScanText(text) == ScanFrom(UNICODE_TO_KRUTIDEV, text, 0, <<>>).out

\* C9: with the shipped table the scan equals per-code-point substitution;
\* hence convert(a + b) = convert(a) + convert(b) for every split of the
\* input, and consonant + vowel sign between two unmapped code points gives
\* the pair's glyphs with the neighbours untouched.
C9_ContextFree ==
    \A p \in Calls :
        Done(p) =>
            LET text == unicode_text[p]
            IN  /\ result[p].text = PerCodePoint(UNICODE_TO_KRUTIDEV, text)
                /\ \A k \in 0..Len(text) :
                       result[p].text =
                           ScanText(SubSeq(text, 1, k))
                               \o ScanText(SubSeq(text, k + 1, Len(text)))
                /\ (/\ Len(text) = 4
                    /\ <<text[1]>> \notin DOMAIN UNICODE_TO_KRUTIDEV
                    /\ text[2] \in Consonants
                    /\ text[3] = 2366
                    /\ <<text[4]>> \notin DOMAIN UNICODE_TO_KRUTIDEV)
                   => result[p].text =
                          <<text[1]>> \o UNICODE_TO_KRUTIDEV[<<text[2]>>]
                              \o UNICODE_TO_KRUTIDEV[<<2366>>] \o <<text[4]>>

\* "h" + KHA + sign AA + "1" has been converted to "h" + "[k" + "k" + "1"
C9_Witness ==
    \E p \in Calls :
        /\ Done(p)
        /\ unicode_text[p] = <<104, 2326, 2366, 49>>
        /\ result[p].text = <<104, 91, 107, 107, 49>>

(***************************************************************************)
(* Properties of interleaved invocations (ConcSpec).                       *)
(***************************************************************************)
\* C5: however the invocations interleave, each one computes what it
\* computes when run alone on its input (its accumulator is the run-alone
\* conversion of the prefix scanned so far, its result the run-alone
\* result), equal inputs give equal results, and the table is never changed.
C5_Deterministic ==
    /\ glyphMap = UNICODE_TO_KRUTIDEV
    /\ \A p \in Calls :
           /\ pc[p] = "loop"
              => krutidev_text[p] = ScanText(SubSeq(unicode_text[p], 1, i[p]))
           /\ Done(p)
              => result[p] \in convert_unicode_to_krutidev(UNICODE_TO_KRUTIDEV,
                                                          unicode_text[p])
    /\ \A p, q \in Calls :
           (Done(p) /\ Done(q) /\ unicode_text[p] = unicode_text[q])
           => result[p] = result[q]

\* one invocation has returned while another one, on the same input, is in
\* the middle of its scan
C5_Witness ==
    \E p, q \in Calls :
        /\ p # q
        /\ unicode_text[p] = <<2326, 104>>
        /\ unicode_text[q] = <<2326, 104>>
        /\ Done(p) /\ result[p].text = <<91, 107, 104>>
        /\ pc[q] = "loop" /\ i[q] = 1 /\ krutidev_text[q] = <<91, 107>>

(***************************************************************************)
(* recognize_speech and the /transcribe endpoint, app.py lines 35-37 and   *)
(* 71-138.                                                                 *)
(***************************************************************************)
\* line 82: "Could not understand audio"
CouldNotUnderstand ==
    <<67, 111, 117, 108, 100, 32, 110, 111, 116, 32, 117, 110, 100, 101,
      114, 115, 116, 97, 110, 100, 32, 97, 117, 100, 105, 111>>

\* line 84: "Error with speech service: "
SpeechServicePrefix ==
    <<69, 114, 114, 111, 114, 32, 119, 105, 116, 104, 32, 115, 112, 101,
      101, 99, 104, 32, 115, 101, 114, 118, 105, 99, 101, 58, 32>>

\* line 86: "Error: "
GenericErrorPrefix ==
    <<69, 114, 114, 111, 114, 58, 32>>

\* line 118: "Error"
ErrorPrefix ==
    <<69, 114, 114, 111, 114>>

\* line 118: "Could not"
CouldNotPrefix ==
    <<67, 111, 117, 108, 100, 32, 110, 111, 116>>

\* line 100: "No audio file provided"
NoAudioProvided ==
    <<78, 111, 32, 97, 117, 100, 105, 111, 32, 102, 105, 108, 101, 32, 112,
      114, 111, 118, 105, 100, 101, 100>>

\* line 106: "No file selected"
NoFileSelected ==
    <<78, 111, 32, 102, 105, 108, 101, 32, 115, 101, 108, 101, 99, 116,
      101, 100>>

\* line 135: "Invalid file type"
InvalidFileType ==
    <<73, 110, 118, 97, 108, 105, 100, 32, 102, 105, 108, 101, 32, 116,
      121, 112, 101>>

\* str(e) of the FileNotFoundError of a missing file:
\* "[Errno 2] No such file or directory"
NoSuchFile ==
    <<91, 69, 114, 114, 110, 111, 32, 50, 93, 32, 78, 111, 32, 115, 117,
      99, 104, 32, 102, 105, 108, 101, 32, 111, 114, 32, 100, 105, 114,
      101, 99, 116, 111, 114, 121>>

\* str(e) of a RequestError of the speech service: "Bad Request"
BadRequest ==
    <<66, 97, 100, 32, 82, 101, 113, 117, 101, 115, 116>>

\* the English word "Errors", recognized from speech
SpokenErrors ==
    <<69, 114, 114, 111, 114, 115>>

\* line 16
ALLOWED_EXTENSIONS == {"wav", "mp3", "m4a", "flac", "aac"}

\* str.lower() on the extensions of the modelled uploads
Lower(ext) == IF ext = "WAV" THEN "wav" ELSE ext

\* The multipart uploads a request can carry.  A filename is dir + stem +
\* "." + ext; ext = "" stands for a filename without a dot.
NoUpload == [present |-> FALSE, dir |-> "", stem |-> "", ext |-> ""]

Uploads ==
    {NoUpload,
     [present |-> TRUE, dir |-> "", stem |-> "", ext |-> ""],
     [present |-> TRUE, dir |-> "", stem |-> "clip", ext |-> "wav"],
     [present |-> TRUE, dir |-> "../", stem |-> "clip", ext |-> "wav"],
     [present |-> TRUE, dir |-> "", stem |-> "talk", ext |-> "WAV"],
     [present |-> TRUE, dir |-> "", stem |-> "notes", ext |-> "txt"]}

\* lines 35-37: the filename has a dot and its last extension, lower-cased,
\* is allowed
allowed_file(u) == u.ext # "" /\ Lower(u.ext) \in ALLOWED_EXTENSIONS

\* line 110: werkzeug's secure_filename drops the directory part and keeps
\* the case; line 111 joins the result to UPLOAD_FOLDER (line 13), the one
\* directory every request saves into
secure_filename(u) == <<u.stem, u.ext>>

\* the paths under UPLOAD_FOLDER the modelled uploads are saved at
Paths == {secure_filename(u) : u \in {v \in Uploads : allowed_file(v)}}

\* no path: the request has saved nothing
NoPath == <<>>

\* s.startswith(prefix)
StartsWith(s, prefix) ==
    Len(s) >= Len(prefix) /\ SubSeq(s, 1, Len(prefix)) = prefix

\* what recognize_google can recognize in an upload: Devanagari text
\* (KA + sign AA) or, for an English language tag, an English word
RecognizedTexts == {<<2325, 2366>>, SpokenErrors}

\* lines 78-86: the ways the recognition of a readable file ends
RecognizerOutcomes ==
    {[kind |-> "ok", text |-> t] : t \in RecognizedTexts}
    \cup {[kind |-> "unknown", text |-> <<>>],
          [kind |-> "request", text |-> BadRequest],
          [kind |-> "generic", text |-> <<>>]}

\* the recognizer has not run
NoOutcome == [kind |-> "none", text |-> <<>>]

\* lines 79-86: the string recognize_speech returns for an outcome
recognize_speech(o) ==
    CASE o.kind = "ok" -> o.text
      [] o.kind = "unknown" -> CouldNotUnderstand
      [] o.kind = "request" -> SpeechServicePrefix \o o.text
      [] OTHER -> GenericErrorPrefix \o o.text

\* jsonify({'error': msg}), status
ErrorResponse(status, msg) ==
    [status |-> status, success |-> FALSE, error |-> msg,
     unicode_text |-> <<>>, krutidev_text |-> <<>>]

\* lines 124-128
SuccessResponse(text, krutidev) ==
    [status |-> 200, success |-> TRUE, error |-> <<>>,
     unicode_text |-> text, krutidev_text |-> krutidev]

\* no response yet
NoResponse ==
    [status |-> 0, success |-> FALSE, error |-> <<>>,
     unicode_text |-> <<>>, krutidev_text |-> <<>>]

\* the requests in progress
Requests == DOMAIN req_pc

\* lines 99-112: the checks of the upload and, when it is accepted, the save
\* of the upload under its secured name (an existing file is overwritten)
Receive(r) ==
    /\ req_pc[r] = "start"
    /\ \E u \in Uploads :
          /\ audio_file' = [audio_file EXCEPT ![r] = u]
          /\ IF ~u.present
             THEN /\ response' = [response EXCEPT
                                    ![r] = ErrorResponse(400, NoAudioProvided)]
                  /\ req_pc' = [req_pc EXCEPT ![r] = "responded"]
                  /\ UNCHANGED <<filepath, files>>
             ELSE IF u.stem = "" /\ u.ext = ""
             THEN /\ response' = [response EXCEPT
                                    ![r] = ErrorResponse(400, NoFileSelected)]
                  /\ req_pc' = [req_pc EXCEPT ![r] = "responded"]
                  /\ UNCHANGED <<filepath, files>>
             ELSE IF allowed_file(u)
             THEN /\ filepath' = [filepath EXCEPT ![r] = secure_filename(u)]
                  /\ files' = [files EXCEPT ![secure_filename(u)] = r]
                  /\ req_pc' = [req_pc EXCEPT ![r] = "saved"]
                  /\ UNCHANGED response
             ELSE /\ response' = [response EXCEPT
                                    ![r] = ErrorResponse(400, InvalidFileType)]
                  /\ req_pc' = [req_pc EXCEPT ![r] = "responded"]
                  /\ UNCHANGED <<filepath, files>>
    /\ UNCHANGED <<heard, outcome, unicode_text_r, converted, glyphMap>>
    /\ UNCHANGED scanVars

\* lines 75-77: recognize_speech opens the file at filepath and records its
\* audio: the upload that is at the path now (0: the file is missing)
RecognizeOpen(r) ==
    /\ req_pc[r] = "saved"
    /\ heard' = [heard EXCEPT ![r] = files[filepath[r]]]
    /\ req_pc' = [req_pc EXCEPT ![r] = "recording"]
    /\ UNCHANGED <<audio_file, filepath, outcome, unicode_text_r, converted,
                   response, files, glyphMap>>
    /\ UNCHANGED scanVars

\* lines 78-86: recognize_speech returns the recognized text or, for a
\* failure, its report; a missing file is a FileNotFoundError (line 85)
RecognizeReturn(r) ==
    /\ req_pc[r] = "recording"
    /\ \E o \in IF heard[r] = 0
                THEN {[kind |-> "generic", text |-> NoSuchFile]}
                ELSE RecognizerOutcomes :
          /\ outcome' = [outcome EXCEPT ![r] = o]
          /\ unicode_text_r' = [unicode_text_r EXCEPT
                                  ![r] = recognize_speech(o)]
    /\ req_pc' = [req_pc EXCEPT ![r] = "recognized"]
    /\ UNCHANGED <<audio_file, filepath, heard, converted, response, files,
                   glyphMap>>
    /\ UNCHANGED scanVars

\* lines 118-128: the error response for a string that starts with "Error"
\* or "Could not", else the conversion and the success response; the
\* response is returned once the finally clause has run
Respond(r) ==
    /\ req_pc[r] = "recognized"
    /\ IF \/ StartsWith(unicode_text_r[r], ErrorPrefix)
          \/ StartsWith(unicode_text_r[r], CouldNotPrefix)
       THEN /\ response' = [response EXCEPT
                              ![r] = ErrorResponse(400, unicode_text_r[r])]
            /\ UNCHANGED converted
       ELSE /\ converted' = [converted EXCEPT
                               ![r] = @ \cup {unicode_text_r[r]}]
            /\ \E k \in convert_unicode_to_krutidev(glyphMap,
                                                    unicode_text_r[r]) :
                   response' = [response EXCEPT
                       ![r] = SuccessResponse(unicode_text_r[r], k.text)]
    /\ req_pc' = [req_pc EXCEPT ![r] = "finally"]
    /\ UNCHANGED <<audio_file, filepath, heard, outcome, unicode_text_r,
                   files, glyphMap>>
    /\ UNCHANGED scanVars

\* line 132: os.path.exists(filepath)
FinallyCheck(r) ==
    /\ req_pc[r] = "finally"
    /\ req_pc' = [req_pc EXCEPT ![r] = IF files[filepath[r]] # 0
                                       THEN "unlink" ELSE "responded"]
    /\ UNCHANGED <<audio_file, filepath, heard, outcome, unicode_text_r,
                   converted, response, files, glyphMap>>
    /\ UNCHANGED scanVars

\* line 133: os.unlink(filepath) removes whatever is at the path; when the
\* file has gone since line 132 it raises FileNotFoundError, which leaves
\* the finally clause, discards the pending response and is answered by
\* lines 137-138
FinallyUnlink(r) ==
    /\ req_pc[r] = "unlink"
    /\ IF files[filepath[r]] # 0
       THEN /\ files' = [files EXCEPT ![filepath[r]] = 0]
            /\ UNCHANGED response
       ELSE /\ response' = [response EXCEPT
                              ![r] = ErrorResponse(500, NoSuchFile)]
            /\ UNCHANGED files
    /\ req_pc' = [req_pc EXCEPT ![r] = "responded"]
    /\ UNCHANGED <<audio_file, filepath, heard, outcome, unicode_text_r,
                   converted, glyphMap>>
    /\ UNCHANGED scanVars

\* no invocation of the converter is modelled step by step
NoCalls ==
    /\ unicode_text = <<>>
    /\ i = <<>>
    /\ krutidev_text = <<>>
    /\ pc = <<>>
    /\ result = <<>>
    /\ consumed = <<>>
    /\ readPos = <<>>

\* NumRequests requests arrive at an empty UPLOAD_FOLDER
TranscribeInit ==
    /\ glyphMap = UNICODE_TO_KRUTIDEV
    /\ NoCalls
    /\ req_pc = [r \in 1..NumRequests |-> "start"]
    /\ audio_file = [r \in 1..NumRequests |-> NoUpload]
    /\ filepath = [r \in 1..NumRequests |-> NoPath]
    /\ heard = [r \in 1..NumRequests |-> 0]
    /\ outcome = [r \in 1..NumRequests |-> NoOutcome]
    /\ unicode_text_r = [r \in 1..NumRequests |-> <<>>]
    /\ converted = [r \in 1..NumRequests |-> {}]
    /\ response = [r \in 1..NumRequests |-> NoResponse]
    /\ files = [path \in Paths |-> 0]

TranscribeNext ==
    \/ \E r \in Requests : Receive(r)
    \/ \E r \in Requests : RecognizeOpen(r)
    \/ \E r \in Requests : RecognizeReturn(r)
    \/ \E r \in Requests : Respond(r)
    \/ \E r \in Requests : FinallyCheck(r)
    \/ \E r \in Requests : FinallyUnlink(r)

TranscribeSpec == TranscribeInit /\ [][TranscribeNext]_vars

(***************************************************************************)
(* Properties of the /transcribe endpoint (TranscribeSpec).                *)
(***************************************************************************)
\* C7: when the recognizer fails, the request is answered with an error
\* response and the failure report is never passed to the converter; when
\* the recognizer succeeds, the recognized text is passed to the converter
\* and the request is answered with a success response carrying it.
C7_OutcomeDistinguished ==
    \A r \in Requests :
        req_pc[r] = "responded" =>
            /\ outcome[r].kind \in {"unknown", "request", "generic"}
               => /\ ~response[r].success
                  /\ unicode_text_r[r] \notin converted[r]
            /\ outcome[r].kind = "ok"
               => /\ outcome[r].text \in converted[r]
                  /\ response[r].success
                  /\ response[r].unicode_text = outcome[r].text

\* C10: from the save of its upload until its recognize_speech call
\* finishes, the file at a request's path is the request's own upload (no
\* other request has overwritten or deleted it), and once the request's
\* finally clause has run the upload it saved is no longer in the folder.
C10_UploadIsolated ==
    \A r \in Requests :
        /\ req_pc[r] \in {"saved", "recording"} => files[filepath[r]] = r
        /\ (req_pc[r] = "responded" /\ filepath[r] # NoPath)
           => \A path \in Paths : files[path] # r

====
